---- MODULE Spec2Model ----
(***************************************************************************)
(* Page replacement simulator (src/new.py): the three policy functions     *)
(* fifo_page_replacement, lru_page_replacement, optimal_page_replacement,  *)
(* executed one loop iteration at a time on a reference string `pages`     *)
(* and a frame count `frames`.                                             *)
(*                                                                         *)
(* Python lists are mutable objects, so the model keeps a heap of list     *)
(* objects: `physical_memory` and the entries of `movements` are           *)
(* references into `heap`.  list.copy() allocates a new object.            *)
(* Wall-clock time (start_time, end_time, run_time) is not modelled.       *)
(***************************************************************************)
EXTENDS Integers, Sequences, FiniteSets, TLC

\* ---- bounds of the model ----
NumPages == 3
MaxLen == 4
MaxFrames == 3
MaxCalls == 2

Pages == 1..NumPages
FrameValues == {-1} \cup (0..MaxFrames)
Algorithms == {"FIFO", "LRU", "Optimal"}
\* Python's None (page_to_replace = None, line 101); not a page
None == 0

RECURSIVE SeqsUpTo(_)
SeqsUpTo(n) ==
    IF n = 0 THEN {<<>>}
    ELSE LET S == SeqsUpTo(n - 1) IN
         S \cup {Append(s, p) : s \in {t \in S : Len(t) = n - 1}, p \in Pages}

\* the reference strings of the worked examples, pages A..E written 1..5
FifoExample == <<1, 2, 3, 4, 1, 2, 5>>
OptimalExample == <<1, 2, 3, 1, 2, 4, 1>>
LruExample == <<1, 2, 3, 1, 4>>
ExampleTraces == {FifoExample, OptimalExample, LruExample}

VARIABLES
    pages,            \* argument: the reference string
    frames,           \* argument: the number of frames
    algorithm,        \* the policy function being executed (or last executed)
    pc,               \* "idle" (no call in progress) or "loop"
    i,                \* 0-based position of the next element of `pages`
    heap,             \* list objects; a reference is an index into heap
    physical_memory,  \* reference to the live frame list
    page_faults,
    movements,        \* sequence of references to snapshots
    page_indices,     \* LRU dict: page -> last access index
    iterations,
    returned,         \* per function, the tuples returned so far
    raised,           \* per function, the exceptions raised so far
    submitted,        \* on_submit's locals: page list, frames text, algorithm
    result_box,       \* blocks of text shown in the result box
    messagebox,       \* message of the open error dialog, "" if none
    visuals,          \* labels of the three visualisation frames
    handler           \* "mainloop", or the GUI function in progress

guivars == <<submitted, result_box, messagebox, visuals, handler>>

vars == <<pages, frames, algorithm, pc, i, heap, physical_memory, page_faults,
          movements, page_indices, iterations, returned, raised, guivars>>

\* ---- Python list primitives ----
\* x in list
Contains(list, x) == \E k \in 1..Len(list) : list[k] = x

\* list.index(x), 0-based, for x in list
ListIndex(list, x) ==
    (CHOOSE k \in 1..Len(list) :
        list[k] = x /\ \A j \in 1..(k - 1) : list[j] # x) - 1

\* list.remove(x) for x in list: drops the first occurrence
ListRemove(list, x) ==
    LET k == ListIndex(list, x) + 1 IN
    SubSeq(list, 1, k - 1) \o SubSeq(list, k + 1, Len(list))

\* list.copy() of object `ref`: a new object with the same contents
ListCopy_alias(h, ref) == [heap |-> h, ref |-> ref]

ListCopy(h, ref) == [heap |-> Append(h, h[ref]), ref |-> Len(h) + 1]

\* dict[key] = value
DictSet(d, key, value) ==
    [k \in (DOMAIN d) \cup {key} |-> IF k = key THEN value ELSE d[k]]

\* min(list, key=lambda p: d[p]) on a non-empty list whose elements are all
\* keys of d: the first element with the least key
MinByKey(list, d) ==
    list[CHOOSE k \in 1..Len(list) :
            /\ \A j \in 1..Len(list) : d[list[k]] <= d[list[j]]
            /\ \A j \in 1..(k - 1) : d[list[j]] > d[list[k]]]

\* outcome of one loop body on the frame list
Ok(memory, fault) == [raised |-> "", memory |-> memory, fault |-> fault]
Raise(exc) == [raised |-> exc, memory |-> <<>>, fault |-> 0]

\* ---- fifo_page_replacement, loop body (lines 25-31) ----
FifoAccess_le(memory, page, nframes) ==
    IF ~Contains(memory, page)
    THEN IF Len(memory) <= nframes
         THEN Ok(Append(memory, page), 1)
         ELSE IF memory = <<>>
              THEN Raise("IndexError")
              ELSE Ok(Append(Tail(memory), page), 1)
    ELSE Ok(memory, 0)

FifoAccess_noappend(memory, page, nframes) ==
    IF ~Contains(memory, page)
    THEN IF Len(memory) < nframes
         THEN Ok(Append(memory, page), 1)
         ELSE IF memory = <<>>
              THEN Raise("IndexError")
              ELSE Ok(Tail(memory), 1)
    ELSE Ok(memory, 0)

FifoAccess_poplast(memory, page, nframes) ==
    IF ~Contains(memory, page)
    THEN IF Len(memory) < nframes
         THEN Ok(Append(memory, page), 1)
         ELSE IF memory = <<>>
              THEN Raise("IndexError")
              ELSE Ok(Append(SubSeq(memory, 1, Len(memory) - 1), page), 1)
    ELSE Ok(memory, 0)

FifoAccess_reorder(memory, page, nframes) ==
    IF ~Contains(memory, page)
    THEN IF Len(memory) < nframes
         THEN Ok(Append(memory, page), 1)
         ELSE IF memory = <<>>
              THEN Raise("IndexError")
              ELSE Ok(Append(Tail(memory), page), 1)
    ELSE Ok(Append(ListRemove(memory, page), page), 0)

FifoAccess(memory, page, nframes) ==
    IF ~Contains(memory, page)
    THEN IF Len(memory) < nframes
         THEN Ok(Append(memory, page), 1)
         ELSE IF memory = <<>>
              THEN Raise("IndexError")             \* pop from empty list
              ELSE Ok(Append(Tail(memory), page), 1)
    ELSE Ok(memory, 0)

\* ---- lru_page_replacement, loop body (lines 56-68) ----
LruAccess_nomove(memory, page, nframes, d) ==
    IF ~Contains(memory, page)
    THEN IF Len(memory) < nframes
         THEN Ok(Append(memory, page), 1)
         ELSE IF memory = <<>>
              THEN Raise("ValueError")
              ELSE IF \E k \in 1..Len(memory) : memory[k] \notin DOMAIN d
                   THEN Raise("KeyError")
                   ELSE Ok(Append(ListRemove(memory, MinByKey(memory, d)), page), 1)
    ELSE Ok(memory, 0)

LruAccess_noremove(memory, page, nframes, d) ==
    IF ~Contains(memory, page)
    THEN IF Len(memory) < nframes
         THEN Ok(Append(memory, page), 1)
         ELSE IF memory = <<>>
              THEN Raise("ValueError")
              ELSE IF \E k \in 1..Len(memory) : memory[k] \notin DOMAIN d
                   THEN Raise("KeyError")
                   ELSE Ok(Append(ListRemove(memory, MinByKey(memory, d)), page), 1)
    ELSE Ok(Append(memory, page), 0)

LruAccess_evictcount(memory, page, nframes, d) ==
    IF ~Contains(memory, page)
    THEN IF Len(memory) < nframes
         THEN Ok(Append(memory, page), 0)
         ELSE IF memory = <<>>
              THEN Raise("ValueError")
              ELSE IF \E k \in 1..Len(memory) : memory[k] \notin DOMAIN d
                   THEN Raise("KeyError")
                   ELSE Ok(Append(ListRemove(memory, MinByKey(memory, d)), page), 1)
    ELSE Ok(Append(ListRemove(memory, page), page), 0)

LruAccess(memory, page, nframes, d) ==
    IF ~Contains(memory, page)
    THEN IF Len(memory) < nframes
         THEN Ok(Append(memory, page), 1)
         ELSE IF memory = <<>>
              THEN Raise("ValueError")             \* min() of an empty list
              ELSE IF \E k \in 1..Len(memory) : memory[k] \notin DOMAIN d
                   THEN Raise("KeyError")          \* page_indices[p] missing
                   ELSE Ok(Append(ListRemove(memory, MinByKey(memory, d)), page), 1)
    ELSE Ok(Append(ListRemove(memory, page), page), 0)

\* ---- optimal_page_replacement, victim search (lines 100-110) ----
\* the scan `for f in physical_memory` from position k on, carrying
\* farthest_index and page_to_replace
RECURSIVE ScanFrames_nobreak(_, _, _, _, _)
ScanFrames_nobreak(memory, future_pages, k, farthest_index, page_to_replace) ==
    IF k > Len(memory) THEN page_to_replace
    ELSE LET f == memory[k] IN
         IF ~Contains(future_pages, f)
         THEN ScanFrames_nobreak(memory, future_pages, k + 1, farthest_index, f)
         ELSE LET index == ListIndex(future_pages, f) IN
              IF index > farthest_index
              THEN ScanFrames_nobreak(memory, future_pages, k + 1, index, f)
              ELSE ScanFrames_nobreak(memory, future_pages, k + 1,
                                      farthest_index, page_to_replace)

RECURSIVE ScanFrames_less(_, _, _, _, _)
ScanFrames_less(memory, future_pages, k, farthest_index, page_to_replace) ==
    IF k > Len(memory) THEN page_to_replace
    ELSE LET f == memory[k] IN
         IF ~Contains(future_pages, f)
         THEN f
         ELSE LET index == ListIndex(future_pages, f) IN
              IF index < farthest_index
              THEN ScanFrames_less(memory, future_pages, k + 1, index, f)
              ELSE ScanFrames_less(memory, future_pages, k + 1,
                                   farthest_index, page_to_replace)

RECURSIVE ScanFrames_nearest(_, _, _, _, _)
ScanFrames_nearest(memory, future_pages, k, farthest_index, page_to_replace) ==
    IF k > Len(memory) THEN page_to_replace
    ELSE LET f == memory[k] IN
         IF ~Contains(future_pages, f)
         THEN f
         ELSE LET index == ListIndex(future_pages, f) IN
              IF farthest_index = -1 \/ index < farthest_index
              THEN ScanFrames_nearest(memory, future_pages, k + 1, index, f)
              ELSE ScanFrames_nearest(memory, future_pages, k + 1,
                                      farthest_index, page_to_replace)

RECURSIVE ScanFrames(_, _, _, _, _)
ScanFrames(memory, future_pages, k, farthest_index, page_to_replace) ==
    IF k > Len(memory) THEN page_to_replace
    ELSE LET f == memory[k] IN
         IF ~Contains(future_pages, f)
         THEN f                                    \* break
         ELSE LET index == ListIndex(future_pages, f) IN
              IF index > farthest_index
              THEN ScanFrames(memory, future_pages, k + 1, index, f)
              ELSE ScanFrames(memory, future_pages, k + 1,
                              farthest_index, page_to_replace)

\* ---- optimal_page_replacement, loop body (lines 95-113) ----
OptimalAccess_early(memory, page, nframes, future_pages) ==
    IF ~Contains(memory, page)
    THEN IF Len(memory) + 1 < nframes
         THEN Ok(Append(memory, page), 1)
         ELSE LET victim == ScanFrames(memory, future_pages, 1, -1, None) IN
              IF ~Contains(memory, victim)
              THEN Raise("ValueError")
              ELSE Ok(Append(ListRemove(memory, victim), page), 1)
    ELSE Ok(memory, 0)

OptimalAccess(memory, page, nframes, future_pages) ==
    IF ~Contains(memory, page)
    THEN IF Len(memory) < nframes
         THEN Ok(Append(memory, page), 1)
         ELSE LET victim == ScanFrames(memory, future_pages, 1, -1, None) IN
              IF ~Contains(memory, victim)
              THEN Raise("ValueError")             \* list.remove(x): x not in list
              ELSE Ok(Append(ListRemove(memory, victim), page), 1)
    ELSE Ok(memory, 0)

\* ---- text of the entries (lines 131-132, 121-128) ----
\* a text is a sequence of one-character strings
Digits == <<"0", "1", "2", "3", "4", "5", "6", "7", "8", "9">>

\* str.strip(): leading and trailing blanks removed
RECURSIVE Strip(_)
Strip(text) ==
    IF text = <<>> THEN <<>>
    ELSE IF Head(text) = " " THEN Strip(Tail(text))
    ELSE IF text[Len(text)] = " " THEN Strip(SubSeq(text, 1, Len(text) - 1))
    ELSE text

\* str.split(): the maximal blank-free pieces, in order
RECURSIVE Split(_)
Split(text) ==
    IF text = <<>> THEN <<>>
    ELSE IF Head(text) = " " THEN Split(Tail(text))
    ELSE LET n == IF \E k \in 1..Len(text) : text[k] = " "
                  THEN (CHOOSE k \in 1..Len(text) :
                           text[k] = " " /\ \A j \in 1..(k - 1) : text[j] # " ") - 1
                  ELSE Len(text)
         IN  <<SubSeq(text, 1, n)>> \o Split(SubSeq(text, n + 1, Len(text)))

\* a character that str.isdigit() accepts and int() rejects: "sup2" stands
\* for the one-character string U+00B2 (superscript two)
DigitLike == {"sup2"}

\* str.isdigit()
IsDigit(text) ==
    /\ text # <<>>
    /\ \A k \in 1..Len(text) :
          (\E d \in 1..10 : Digits[d] = text[k]) \/ text[k] \in DigitLike

\* the texts int() converts: decimal digits only (after isdigit() held)
IsDecimal(text) ==
    /\ text # <<>>
    /\ \A k \in 1..Len(text) : \E d \in 1..10 : Digits[d] = text[k]

\* int(text) for a text of decimal digits
RECURSIVE ParseInt(_)
ParseInt(text) ==
    IF text = <<>> THEN 0
    ELSE 10 * ParseInt(SubSeq(text, 1, Len(text) - 1))
         + (CHOOSE d \in 0..9 : Digits[d + 1] = text[Len(text)])

\* validate_input: the error message shown, "" when it returns True,
\* "ValueError" when int() raises
ValidateError_negative(pagelist, framestext) ==
    IF pagelist = <<>>
    THEN "Please enter a valid page string."
    ELSE IF ~IsDigit(framestext)
         THEN "Please enter a valid number of frames."
         ELSE IF ~IsDecimal(framestext)
              THEN "ValueError"                    \* int() raises
              ELSE IF ParseInt(framestext) < 0
                   THEN "Please enter a valid number of frames."
                   ELSE ""

ValidateError(pagelist, framestext) ==
    IF pagelist = <<>>
    THEN "Please enter a valid page string."
    ELSE IF ~IsDigit(framestext)
         THEN "Please enter a valid number of frames."
         ELSE IF ~IsDecimal(framestext)
              THEN "ValueError"                    \* int() raises
              ELSE IF ParseInt(framestext) <= 0
                   THEN "Please enter a valid number of frames."
                   ELSE ""

\* the widgets after the main window is set up (lines 200-241)
\* on_submit's locals while on_submit is not running
NoSubmit == [pages |-> <<>>, frames |-> <<>>, algorithm |-> "FIFO"]

GuiStart ==
    /\ submitted = NoSubmit
    /\ result_box = <<>>
    /\ messagebox = ""
    /\ visuals = [virtual_memory |-> <<>>, page_table |-> <<>>,
                  physical_memory |-> <<>>]
    /\ handler = "mainloop"

\* ---- state machine ----
EmptyDict == [k \in {} |-> 0]

Init ==
    /\ pages \in SeqsUpTo(MaxLen) \cup ExampleTraces
    /\ frames \in FrameValues
    /\ algorithm = "none"
    /\ pc = "idle"
    /\ i = 0
    /\ heap = <<>>
    /\ physical_memory = None
    /\ page_faults = 0
    /\ movements = <<>>
    /\ page_indices = EmptyDict
    /\ iterations = 0
    /\ returned = [a \in Algorithms |-> <<>>]
    /\ raised = [a \in Algorithms |-> <<>>]
    /\ GuiStart

\* entry of a policy function: the locals are created
Call_stale(alg) ==
    /\ pc = "idle"
    /\ Len(returned[alg]) + Len(raised[alg]) < MaxCalls
    /\ algorithm' = alg
    /\ pc' = "loop"
    /\ i' = 0
    /\ heap' = IF heap = <<>> THEN << <<>> >> ELSE << heap[physical_memory] >>
    /\ physical_memory' = 1
    /\ page_faults' = 0
    /\ movements' = <<>>
    /\ page_indices' = EmptyDict
    /\ iterations' = 0
    /\ UNCHANGED <<pages, frames, returned, raised, guivars>>

Call_faults1(alg) ==
    /\ pc = "idle"
    /\ Len(returned[alg]) + Len(raised[alg]) < MaxCalls
    /\ algorithm' = alg
    /\ pc' = "loop"
    /\ i' = 0
    /\ heap' = << <<>> >>
    /\ physical_memory' = 1
    /\ page_faults' = 1
    /\ movements' = <<>>
    /\ page_indices' = EmptyDict
    /\ iterations' = 0
    /\ UNCHANGED <<pages, frames, returned, raised, guivars>>

Call(alg) ==
    /\ pc = "idle"
    /\ Len(returned[alg]) + Len(raised[alg]) < MaxCalls
    /\ algorithm' = alg
    /\ pc' = "loop"
    /\ i' = 0
    /\ heap' = << <<>> >>
    /\ physical_memory' = 1
    /\ page_faults' = 0
    /\ movements' = <<>>
    /\ page_indices' = EmptyDict
    /\ iterations' = 0
    /\ UNCHANGED <<pages, frames, returned, raised, guivars>>

\* one loop iteration, given the outcome r of the policy's branch on the
\* frame list and the value d of page_indices after the iteration
LoopBody_missonly(r, d) ==
    /\ iterations' = iterations + 1
    /\ IF r.raised # ""
       THEN /\ raised' = [raised EXCEPT ![algorithm] = Append(@, r.raised)]
            /\ pc' = "idle"
            /\ UNCHANGED <<i, heap, page_faults, movements, page_indices>>
       ELSE LET h1 == [heap EXCEPT ![physical_memory] = r.memory]
                c  == ListCopy(h1, physical_memory)
            IN  /\ heap' = IF r.fault = 1 THEN c.heap ELSE h1
                /\ movements' = IF r.fault = 1 THEN Append(movements, c.ref)
                                ELSE movements
                /\ page_faults' = page_faults + r.fault
                /\ page_indices' = d
                /\ i' = i + 1
                /\ UNCHANGED <<pc, raised>>
    /\ UNCHANGED <<pages, frames, algorithm, physical_memory, returned, guivars>>

LoopBody(r, d) ==
    /\ iterations' = iterations + 1
    /\ IF r.raised # ""
       THEN /\ raised' = [raised EXCEPT ![algorithm] = Append(@, r.raised)]
            /\ pc' = "idle"
            /\ UNCHANGED <<i, heap, page_faults, movements, page_indices>>
       ELSE LET h1 == [heap EXCEPT ![physical_memory] = r.memory]
                c  == ListCopy(h1, physical_memory)
            IN  /\ heap' = c.heap
                /\ movements' = Append(movements, c.ref)
                /\ page_faults' = page_faults + r.fault
                /\ page_indices' = d
                /\ i' = i + 1
                /\ UNCHANGED <<pc, raised>>
    /\ UNCHANGED <<pages, frames, algorithm, physical_memory, returned, guivars>>

FifoStep ==
    /\ pc = "loop" /\ algorithm = "FIFO" /\ i < Len(pages)
    /\ LoopBody(FifoAccess(heap[physical_memory], pages[i + 1], frames),
                page_indices)

LruStep_nohitupdate ==
    /\ pc = "loop" /\ algorithm = "LRU" /\ i < Len(pages)
    /\ LoopBody(LruAccess(heap[physical_memory], pages[i + 1], frames,
                          page_indices),
                IF Contains(heap[physical_memory], pages[i + 1])
                THEN page_indices
                ELSE DictSet(page_indices, pages[i + 1], i))

LruStep ==
    /\ pc = "loop" /\ algorithm = "LRU" /\ i < Len(pages)
    /\ LoopBody(LruAccess(heap[physical_memory], pages[i + 1], frames,
                          page_indices),
                DictSet(page_indices, pages[i + 1], i))

OptimalStep ==
    /\ pc = "loop" /\ algorithm = "Optimal" /\ i < Len(pages)
    /\ LoopBody(OptimalAccess(heap[physical_memory], pages[i + 1], frames,
                              SubSeq(pages, i + 2, Len(pages))),
                page_indices)

\* the snapshots, dereferenced
Snapshots == [k \in 1..Len(movements) |-> heap[movements[k]]]

\* the returned tuple, without run_time
Report ==
    [page_faults     |-> page_faults,
     physical_memory |-> heap[physical_memory],
     movements       |-> Snapshots,
     iterations      |-> iterations]

Return ==
    /\ pc = "loop" /\ i = Len(pages)
    /\ returned' = [returned EXCEPT ![algorithm] = Append(@, Report)]
    /\ pc' = "idle"
    /\ UNCHANGED <<pages, frames, algorithm, i, heap, physical_memory,
                   page_faults, movements, page_indices, iterations, raised,
                   guivars>>

Next ==
    \/ \E alg \in Algorithms : Call(alg)
    \/ FifoStep
    \/ LruStep
    \/ OptimalStep
    \/ Return

Spec == Init /\ [][Next]_vars

\* the three policy functions called once each on the same arguments, in
\* the order of lines 186-188
CallInTurn ==
    \E alg \in Algorithms :
        /\ returned[alg] = <<>> /\ raised[alg] = <<>>
        /\ alg = "LRU" => (returned["FIFO"] # <<>> \/ raised["FIFO"] # <<>>)
        /\ alg = "Optimal" => (returned["LRU"] # <<>> \/ raised["LRU"] # <<>>)
        /\ Call(alg)

FairNext ==
    \/ CallInTurn
    \/ FifoStep
    \/ LruStep
    \/ OptimalStep
    \/ Return

\* a call in progress runs to its end: the loop is synchronous and has no
\* suspension point
FairSpec ==
    /\ Init
    /\ [][FairNext]_vars
    /\ WF_vars(FifoStep \/ LruStep \/ OptimalStep \/ Return)


\* ---- helpers of the properties ----
NoDuplicates(list) ==
    \A j, k \in 1..Len(list) : j # k => list[j] # list[k]

\* all reports returned so far, by any policy
Reports == UNION {{returned[a][k] : k \in 1..Len(returned[a])} : a \in Algorithms}

\* the frame list right before the k-th reference (1-based), read from a
\* sequence of snapshots
Before(snaps, k) == IF k = 1 THEN <<>> ELSE snaps[k - 1]

\* number of the first n references that were absent right before their step
Misses(snaps, n) ==
    Cardinality({k \in 1..n : ~Contains(Before(snaps, k), pages[k])})

\* a call has been made and has not raised
Running == algorithm # "none" /\ raised[algorithm] = <<>>

AllReturned == \A a \in Algorithms : returned[a] # <<>>

\* C1: with frames >= 1, under every policy the live frame list, every
\* recorded snapshot and every returned frame list and snapshot hold at most
\* `frames` pages.
C1_FrameBound ==
    frames >= 1 =>
        /\ \A k \in 1..Len(heap) : Len(heap[k]) <= frames
        /\ \A r \in Reports :
              /\ Len(r.physical_memory) <= frames
              /\ \A k \in 1..Len(r.movements) : Len(r.movements[k]) <= frames

C1_Witness ==
    /\ frames >= 1
    /\ AllReturned
    /\ \A a \in Algorithms :
          /\ returned[a][1].page_faults > frames
          /\ Len(returned[a][1].physical_memory) = frames

\* C2: with frames >= 1, under every policy the fault counter equals the
\* number of processed positions whose page was absent from the frame list
\* right before the step, during the loop and in the returned tuple.
C2_FaultCount ==
    frames >= 1 =>
        /\ Running => page_faults = Misses(Snapshots, i)
        /\ \A r \in Reports : r.page_faults = Misses(r.movements, Len(pages))

C2_Witness ==
    /\ frames >= 1
    /\ AllReturned
    /\ \A a \in Algorithms :
          /\ returned[a][1].page_faults > frames
          /\ returned[a][1].page_faults < Len(pages)

\* C3: when the three policies have run on the same pages and frames, the
\* fault count of Optimal is at most that of FIFO and at most that of LRU.
C3_OptimalLeast ==
    \A a \in Algorithms :
        \A j \in 1..Len(returned["Optimal"]) : \A k \in 1..Len(returned[a]) :
            returned["Optimal"][j].page_faults <= returned[a][k].page_faults

C3_Witness ==
    /\ AllReturned
    /\ returned["Optimal"][1].page_faults < returned["FIFO"][1].page_faults
    /\ returned["Optimal"][1].page_faults < returned["LRU"][1].page_faults

\* C4: with frames <= 0, under every policy and for every reference string,
\* the call fails with InvalidArgument and returns no report.
C4_InvalidArgument ==
    frames <= 0 =>
        \A a \in Algorithms :
            /\ returned[a] = <<>>
            /\ \A k \in 1..Len(raised[a]) : raised[a][k] = "InvalidArgument"

\* C5: with frames >= 1, no policy ever raises, each loop iteration processes
\* exactly the next position (iterations = i <= Len(pages)), a returned tuple
\* has processed every position, and a call in progress always returns.
C5_Total ==
    /\ [](frames >= 1 =>
            /\ \A a \in Algorithms : raised[a] = <<>>
            /\ iterations = i
            /\ i <= Len(pages)
            /\ \A r \in Reports : r.iterations = Len(pages))
    /\ \A a \in Algorithms :
          (frames >= 1 /\ pc = "loop" /\ algorithm = a)
              ~> (pc = "idle" /\ returned[a] # <<>>)

C5_Witness ==
    /\ frames >= 1
    /\ Len(pages) > frames
    /\ pc = "idle"
    /\ \A a \in Algorithms :
          /\ Len(returned[a]) = 1
          /\ returned[a][1].page_faults > frames

\* C6: with frames >= 1, under every policy no page occurs twice in the live
\* frame list, in a recorded snapshot, or in a returned frame list or
\* snapshot.
C6_NoDuplicates ==
    frames >= 1 =>
        /\ \A k \in 1..Len(heap) : NoDuplicates(heap[k])
        /\ \A r \in Reports :
              /\ NoDuplicates(r.physical_memory)
              /\ \A k \in 1..Len(r.movements) : NoDuplicates(r.movements[k])

C6_Witness ==
    /\ frames >= 2
    /\ AllReturned
    /\ \A a \in Algorithms :
          /\ returned[a][1].page_faults < Len(pages)
          /\ Len(returned[a][1].physical_memory) >= 2

\* C7: with frames >= 1, under every policy one snapshot is recorded per
\* processed position, hit or miss: during the loop len(movements) =
\* iterations = i, and a returned tuple has len(movements) = iterations =
\* len(pages).
C7_OneSnapshotPerStep ==
    frames >= 1 =>
        /\ Running => Len(movements) = i /\ iterations = i
        /\ \A r \in Reports :
              /\ Len(r.movements) = Len(pages)
              /\ r.iterations = Len(pages)

C7_Witness ==
    /\ frames >= 1
    /\ AllReturned
    /\ \A a \in Algorithms :
          /\ returned[a][1].page_faults < Len(pages)
          /\ returned[a][1].page_faults >= 2
          /\ Len(returned[a][1].movements) = Len(pages)

\* C8: a loop iteration leaves every snapshot recorded before it unchanged,
\* and the snapshot it records equals the frame list right after it.
C8_SnapshotsFrozen ==
    [][(pc = "loop" /\ i' = i + 1) =>
          /\ Len(movements') = Len(movements) + 1
          /\ \A k \in 1..Len(movements) :
                heap'[movements'[k]] = heap[movements[k]]
          /\ heap'[movements'[Len(movements')]] = heap'[physical_memory']]_vars

C8_Witness ==
    /\ pc = "loop"
    /\ Len(movements) >= 3
    /\ heap[movements[1]] # heap[physical_memory]
    /\ heap[movements[2]] # heap[physical_memory]
    /\ Len(heap[movements[2]]) = Len(heap[physical_memory])

\* C9: two calls of the same policy with the same pages and frames end the
\* same way: equal returned tuples (run_time aside) or equal exceptions,
\* whatever calls were made in between.
C9_Idempotent ==
    \A a \in Algorithms :
        /\ \A j, k \in 1..Len(returned[a]) : returned[a][j] = returned[a][k]
        /\ \A j, k \in 1..Len(raised[a]) : raised[a][j] = raised[a][k]

C9_Witness ==
    /\ frames >= 1
    /\ \A a \in Algorithms :
          /\ Len(returned[a]) >= 2
          /\ returned[a][2].page_faults > frames

\* C10: for the empty reference string and frames >= 1, every policy
\* returns 0 faults, an empty frame list, no snapshot and 0 iterations.
C10_EmptyTrace ==
    (pages = <<>> /\ frames >= 1) =>
        \A a \in Algorithms :
            /\ raised[a] = <<>>
            /\ \A k \in 1..Len(returned[a]) :
                  returned[a][k] = [page_faults     |-> 0,
                                    physical_memory |-> <<>>,
                                    movements       |-> <<>>,
                                    iterations      |-> 0]

C10_Witness ==
    /\ pages = <<>>
    /\ frames >= 1
    /\ AllReturned

\* C11 (as amended): FIFO on [A,B,C,D,A,B,E] with 3 frames returns 7 faults
\* (every reference misses), the frame list evolving [A], [A,B], [A,B,C],
\* [B,C,D], [C,D,A], [D,A,B], [A,B,E], final frame list [A,B,E].
C11_FifoExample ==
    (pages = FifoExample /\ frames = 3) =>
        \A k \in 1..Len(returned["FIFO"]) :
            returned["FIFO"][k] =
                [page_faults     |-> 7,
                 physical_memory |-> <<1, 2, 5>>,
                 movements       |-> << <<1>>, <<1, 2>>, <<1, 2, 3>>, <<2, 3, 4>>,
                                        <<3, 4, 1>>, <<4, 1, 2>>, <<1, 2, 5>> >>,
                 iterations      |-> 7]

C11_Witness ==
    /\ pages = FifoExample
    /\ frames = 3
    /\ returned["FIFO"] # <<>>

\* C11 as stated: the same run reports 6 faults.
C11_Original ==
    (pages = FifoExample /\ frames = 3) =>
        \A k \in 1..Len(returned["FIFO"]) :
            /\ returned["FIFO"][k].page_faults = 6
            /\ returned["FIFO"][k].physical_memory = <<1, 2, 5>>
            /\ returned["FIFO"][k].movements =
                   << <<1>>, <<1, 2>>, <<1, 2, 3>>, <<2, 3, 4>>,
                      <<3, 4, 1>>, <<4, 1, 2>>, <<1, 2, 5>> >>

\* the pages of a list, as a set
Range(list) == {list[k] : k \in 1..Len(list)}

\* C12 (as amended): Optimal on [A,B,C,A,B,D,A] with 3 frames admits A, B, C
\* with 3 faults, hits on A and B, misses on D and evicts B, the first
\* resident page in list order without a future occurrence, so that the
\* frame list right after D is [A,C,D]; the final A hits; 4 faults in all.
C12_OptimalExample ==
    (pages = OptimalExample /\ frames = 3) =>
        \A k \in 1..Len(returned["Optimal"]) :
            returned["Optimal"][k] =
                [page_faults     |-> 4,
                 physical_memory |-> <<1, 3, 4>>,
                 movements       |-> << <<1>>, <<1, 2>>, <<1, 2, 3>>, <<1, 2, 3>>,
                                        <<1, 2, 3>>, <<1, 3, 4>>, <<1, 3, 4>> >>,
                 iterations      |-> 7]

C12_Witness ==
    /\ pages = OptimalExample
    /\ frames = 3
    /\ returned["Optimal"] # <<>>

\* C12 as stated: D evicts C and the frame set right after D is {A,B,D}.
C12_Original ==
    (pages = OptimalExample /\ frames = 3) =>
        \A k \in 1..Len(returned["Optimal"]) :
            LET r == returned["Optimal"][k] IN
            /\ r.page_faults = 4
            /\ Range(r.movements[3]) = {1, 2, 3}
            /\ Range(r.movements[4]) = {1, 2, 3}
            /\ Range(r.movements[5]) = {1, 2, 3}
            /\ Range(r.movements[6]) = {1, 2, 4}
            /\ Range(r.movements[7]) = {1, 2, 4}

\* the position (1-based) at which the resident page p was last admitted,
\* read from the snapshots of the first n references
AdmittedAt(snaps, n, p) ==
    CHOOSE k \in 1..n :
        /\ pages[k] = p /\ ~Contains(Before(snaps, k), p)
        /\ \A j \in (k + 1)..n :
              ~(pages[j] = p /\ ~Contains(Before(snaps, j), p))

\* C13: in FIFO with frames >= 1, a hit leaves the frame list as it is, a
\* miss below capacity appends the page, a miss at capacity removes the
\* front page and appends the page, and the frame list is always in order of
\* admission (the front page is the one admitted earliest).
C13_FifoArrivalOrder ==
    [][(pc = "loop" /\ algorithm = "FIFO" /\ frames >= 1 /\ i' = i + 1) =>
          LET mem  == heap[physical_memory]
              new  == heap'[physical_memory']
              page == pages[i + 1]
          IN  /\ Contains(mem, page) => new = mem
              /\ (~Contains(mem, page) /\ Len(mem) < frames) =>
                     new = Append(mem, page)
              /\ (~Contains(mem, page) /\ Len(mem) >= frames) =>
                     new = Append(Tail(mem), page)
              /\ \A j, k \in 1..Len(new) :
                     j < k => AdmittedAt(Snapshots', i', new[j])
                                  < AdmittedAt(Snapshots', i', new[k])]_vars

C13_Witness ==
    /\ algorithm = "FIFO"
    /\ pc = "loop"
    /\ frames >= 2
    /\ page_faults > frames
    /\ page_faults < i
    /\ Len(heap[physical_memory]) = frames

\* the position (1-based) of the last reference to p among the first n
\* references, 0 if there is none
LastRef(p, n) ==
    IF \E k \in 1..n : pages[k] = p
    THEN CHOOSE k \in 1..n :
             pages[k] = p /\ \A j \in (k + 1)..n : pages[j] # p
    ELSE 0

\* C14: in LRU with frames >= 1, a hit evicts nothing, and a miss on a full
\* frame list evicts the resident page whose last reference in the prefix
\* processed so far is the oldest; on [A,B,C,A,D] with 3 frames D evicts B,
\* the final frame list is [C,A,D] and there are 4 faults.
C14_LruVictim ==
    /\ []((pages = LruExample /\ frames = 3) =>
            \A k \in 1..Len(returned["LRU"]) :
                LET r == returned["LRU"][k] IN
                /\ r.page_faults = 4
                /\ r.physical_memory = <<3, 1, 4>>
                /\ Range(r.movements[4]) = {1, 2, 3}
                /\ Range(r.movements[5]) = {1, 3, 4})
    /\ [][(pc = "loop" /\ algorithm = "LRU" /\ frames >= 1 /\ i' = i + 1) =>
            LET mem  == heap[physical_memory]
                new  == heap'[physical_memory']
                page == pages[i + 1]
            IN  /\ Contains(mem, page) => Range(new) = Range(mem)
                /\ (~Contains(mem, page) /\ Len(mem) >= frames) =>
                       \E victim \in Range(mem) :
                           /\ \A q \in Range(mem) \ {victim} :
                                  LastRef(victim, i) < LastRef(q, i)
                           /\ Range(new) = (Range(mem) \ {victim}) \cup {page}]_vars

C14_Witness ==
    /\ pages = LruExample
    /\ frames = 3
    /\ returned["LRU"] # <<>>
    /\ returned["LRU"][1].movements[5] = <<3, 1, 4>>

\* the position (1-based) of the first reference to p after position n,
\* 0 if there is none
NextUse(p, n) ==
    IF \E k \in (n + 1)..Len(pages) : pages[k] = p
    THEN CHOOSE k \in (n + 1)..Len(pages) :
             pages[k] = p /\ \A j \in (n + 1)..(k - 1) : pages[j] # p
    ELSE 0

\* C15: in Optimal with frames >= 1, a miss on a full frame list evicts one
\* resident page: one that is never referenced again if there is such a
\* page, otherwise the one whose next reference is the farthest.
C15_OptimalVictim ==
    [][(pc = "loop" /\ algorithm = "Optimal" /\ frames >= 1 /\ i' = i + 1
            /\ ~Contains(heap[physical_memory], pages[i + 1])
            /\ Len(heap[physical_memory]) >= frames) =>
          LET mem == heap[physical_memory]
              new == heap'[physical_memory']
          IN  \E victim \in Range(mem) :
                  /\ Range(new) = (Range(mem) \ {victim}) \cup {pages[i + 1]}
                  /\ IF \E q \in Range(mem) : NextUse(q, i + 1) = 0
                     THEN NextUse(victim, i + 1) = 0
                     ELSE \A q \in Range(mem) \ {victim} :
                              NextUse(q, i + 1) < NextUse(victim, i + 1)]_vars

\* an eviction has just happened with every resident page still to be
\* referenced again
C15_Witness ==
    /\ algorithm = "Optimal"
    /\ pc = "loop"
    /\ frames >= 2
    /\ i >= 1
    /\ LET prev == Before(Snapshots, i) IN
          /\ Len(prev) = frames
          /\ ~Contains(prev, pages[i])
          /\ \A q \in Range(prev) : NextUse(q, i) > 0

\* ---- the same reference string under growing frame counts ----
RECURSIVE TracesOver(_, _)
TracesOver(P, n) ==
    IF n = 0 THEN {<<>>}
    ELSE LET S == TracesOver(P, n - 1) IN
         S \cup {Append(s, p) : s \in {t \in S : Len(t) = n - 1}, p \in P}

BeladyInit ==
    /\ pages \in TracesOver(1..(NumPages + 1), MaxLen + 1)
    /\ frames \in 1..MaxFrames
    /\ algorithm = "none"
    /\ pc = "idle"
    /\ i = 0
    /\ heap = <<>>
    /\ physical_memory = None
    /\ page_faults = 0
    /\ movements = <<>>
    /\ page_indices = EmptyDict
    /\ iterations = 0
    /\ returned = [a \in Algorithms |-> <<>>]
    /\ raised = [a \in Algorithms |-> <<>>]
    /\ GuiStart

\* the caller passes a larger frame count to its next call
ChangeFrames ==
    /\ pc = "idle"
    /\ \E f \in (frames + 1)..MaxFrames : frames' = f
    /\ UNCHANGED <<pages, algorithm, pc, i, heap, physical_memory, page_faults,
                   movements, page_indices, iterations, returned, raised,
                   guivars>>

BeladyNext ==
    \/ Call("LRU")
    \/ LruStep
    \/ Return
    \/ ChangeFrames

BeladySpec == BeladyInit /\ [][BeladyNext]_vars

\* C16: frames only grows between calls, so of two LRU reports on the same
\* reference string the later one was computed with at least as many
\* frames: it has at most as many faults, and after every step its frame
\* set contains the earlier one's.
C16_LruNoBelady ==
    \A j, k \in 1..Len(returned["LRU"]) :
        j < k =>
            /\ returned["LRU"][k].page_faults <= returned["LRU"][j].page_faults
            /\ \A s \in 1..Len(pages) :
                   Range(returned["LRU"][j].movements[s])
                       \subseteq Range(returned["LRU"][k].movements[s])

\* two LRU runs with 2 and 3 frames (4 distinct pages referenced), the
\* second with fewer faults
C16_Witness ==
    /\ Len(returned["LRU"]) = 2
    /\ Len(returned["LRU"][1].physical_memory) = 2
    /\ Len(returned["LRU"][2].physical_memory) = 3
    /\ returned["LRU"][1].page_faults > 4
    /\ returned["LRU"][2].page_faults < returned["LRU"][1].page_faults
    /\ returned["LRU"][2].page_faults > 3

\* ---- the GUI: entries, on_submit, show_large_input_results ----
\* bounds of the texts typed and of the random reference string
PageTextLen == 3
FrameTextLen == 1
LargeLen == 2
LargeMax == 1

PageTexts == TracesOver({"a", " "}, PageTextLen)
FrameTexts == TracesOver({"0", "1", "x", " ", "sup2"}, FrameTextLen)
\* [random.randint(0, 100) for _ in range(10000)], with LargeMax for 100 and
\* LargeLen for 10000
LargeTraces == {t \in TracesOver(0..LargeMax, LargeLen) : Len(t) = LargeLen}

\* format_memory_state: the frame list padded with '' up to `frames` cells
FormatMemoryState(memory, nframes) ==
    memory \o [k \in 1..(nframes - Len(memory)) |-> <<>>]

\* result_text of on_submit (lines 146-149), without the run time
ResultText(r, alg, nframes) ==
    [page_faults  |-> r.page_faults,
     final_frames |-> r.physical_memory,
     movements    |-> [k \in 1..Len(r.movements) |->
                          FormatMemoryState(r.movements[k], nframes)],
     algorithm    |-> alg,
     iterations   |-> r.iterations]

\* the labels built by update_visuals (lines 168-182) from movements[-1]
Visuals(pagelist, nframes, snaps) ==
    LET last == snaps[Len(snaps)] IN
    [virtual_memory  |-> pagelist,
     page_table      |-> [k \in 1..Len(last) |->
                             <<last[k], IF k - 1 < nframes
                                        THEN <<"Frame", k - 1>>
                                        ELSE <<"Not in Memory">> >>],
     physical_memory |-> last]

GuiInit ==
    /\ pages = <<>>
    /\ frames = 0
    /\ algorithm = "none"
    /\ pc = "idle"
    /\ i = 0
    /\ heap = <<>>
    /\ physical_memory = None
    /\ page_faults = 0
    /\ movements = <<>>
    /\ page_indices = EmptyDict
    /\ iterations = 0
    /\ returned = [a \in Algorithms |-> <<>>]
    /\ raised = [a \in Algorithms |-> <<>>]
    /\ GuiStart

policyvars == <<pages, frames, algorithm, pc, i, heap, physical_memory,
                page_faults, movements, page_indices, iterations, returned,
                raised>>

\* the user fills the entries, selects an algorithm and presses Submit:
\* on_submit up to the call of the selected policy (lines 131-137); a
\* rejected input opens the modal error dialog; a ValueError of int() ends
\* the handler at once
OnSubmit ==
    /\ handler = "mainloop"
    /\ \E pagestext \in PageTexts, framestext \in FrameTexts, alg \in Algorithms :
          LET pagelist == Split(Strip(pagestext))
              ftext    == Strip(framestext)
              error    == ValidateError(pagelist, ftext)
          IN  IF error = "ValueError"
              THEN UNCHANGED <<pages, frames, submitted, messagebox, handler>>
              ELSE /\ submitted' = [pages |-> pagelist, frames |-> ftext,
                                    algorithm |-> alg]
                   /\ IF error # ""
                      THEN /\ messagebox' = error
                           /\ handler' = "showerror"
                           /\ UNCHANGED <<pages, frames>>
                      ELSE /\ pages' = pagelist
                           /\ frames' = ParseInt(ftext)
                           /\ handler' = "on_submit"
                           /\ UNCHANGED messagebox
    /\ UNCHANGED <<algorithm, pc, i, heap, physical_memory, page_faults,
                   movements, page_indices, iterations, returned, raised,
                   result_box, visuals>>

\* the error dialog is closed: validate_input returns False and on_submit
\* returns (lines 124, 127, 134)
DismissError ==
    /\ handler = "showerror"
    /\ messagebox' = ""
    /\ submitted' = NoSubmit
    /\ handler' = "mainloop"
    /\ UNCHANGED <<policyvars, result_box, visuals>>

\* lines 139-144: the selected policy function is entered
CallSelected ==
    /\ handler = "on_submit"
    /\ returned[submitted.algorithm] = <<>>
    /\ raised[submitted.algorithm] = <<>>
    /\ Call(submitted.algorithm)

\* lines 146-157 and 185: the returned tuple is shown, the visuals are
\* rebuilt and show_large_input_results draws its reference string
ShowResult ==
    /\ handler = "on_submit"
    /\ pc = "idle"
    /\ returned[submitted.algorithm] # <<>>
    /\ LET r == returned[submitted.algorithm][1] IN
          /\ result_box' = <<ResultText(r, submitted.algorithm, frames)>>
          /\ visuals' = Visuals(pages, frames, r.movements)
    /\ \E large_pages \in LargeTraces : pages' = large_pages
    /\ returned' = [a \in Algorithms |-> <<>>]
    /\ handler' = "show_large_input_results"
    /\ UNCHANGED <<frames, algorithm, pc, i, heap, physical_memory, page_faults,
                   movements, page_indices, iterations, raised, submitted,
                   messagebox>>

\* lines 186-188: the three policy functions are entered in turn
CallLarge ==
    /\ handler = "show_large_input_results"
    /\ \E alg \in Algorithms :
          /\ returned[alg] = <<>> /\ raised[alg] = <<>>
          /\ alg = "LRU" => returned["FIFO"] # <<>>
          /\ alg = "Optimal" => returned["LRU"] # <<>>
          /\ Call(alg)

\* lines 190-197: the three fault counts are appended to the result box and
\* on_submit returns
ShowLarge ==
    /\ handler = "show_large_input_results"
    /\ pc = "idle"
    /\ \A a \in Algorithms : returned[a] # <<>>
    /\ result_box' = Append(result_box,
                            [fifo_faults    |-> returned["FIFO"][1].page_faults,
                             lru_faults     |-> returned["LRU"][1].page_faults,
                             optimal_faults |-> returned["Optimal"][1].page_faults])
    /\ returned' = [a \in Algorithms |-> <<>>]
    /\ submitted' = NoSubmit
    /\ handler' = "mainloop"
    /\ UNCHANGED <<pages, frames, algorithm, pc, i, heap, physical_memory,
                   page_faults, movements, page_indices, iterations, raised,
                   messagebox, visuals>>

GuiNext ==
    \/ OnSubmit
    \/ DismissError
    \/ CallSelected
    \/ ShowResult
    \/ CallLarge
    \/ ShowLarge
    \/ FifoStep
    \/ LruStep
    \/ OptimalStep
    \/ Return

GuiSpec == GuiInit /\ [][GuiNext]_vars

\* the input the claim calls invalid: an empty page list, a frames text that
\* is not all digits, or a frames value <= 0
InvalidInput(s) ==
    \/ s.pages = <<>>
    \/ s.frames = <<>>
    \/ \E k \in 1..Len(s.frames) : s.frames[k] \notin {Digits[d] : d \in 1..10}
    \/ ParseInt(s.frames) <= 0

\* C17: a submit with an empty page list, a frames text that is not all
\* digits, or a frames value <= 0 is rejected with an error dialog; neither
\* it nor the closing of the dialog enters a policy function or changes the
\* result box; and a policy function entered from the submit path always has
\* frames >= 1 and a non-empty reference string.
C17_SubmitValidated ==
    /\ [](pc = "loop" => frames >= 1 /\ pages # <<>>)
    /\ [][((handler = "mainloop" /\ handler' # "mainloop"
                /\ InvalidInput(submitted'))
           \/ handler = "showerror") =>
            /\ handler' \in {"showerror", "mainloop"}
            /\ handler' = "showerror" => messagebox' # ""
            /\ pc' = "idle"
            /\ result_box' = result_box
            /\ visuals' = visuals
            /\ <<pages, frames, algorithm, returned, raised>>'
                   = <<pages, frames, algorithm, returned, raised>>]_vars

\* a result is on display and a later submit with frames text "0" has been
\* rejected
C17_Witness ==
    /\ handler = "showerror"
    /\ Len(result_box) = 2
    /\ submitted.pages # <<>>
    /\ submitted.frames = <<"0">>
    /\ messagebox = "Please enter a valid number of frames."

\* C18: in LRU with frames >= 1, after every step every resident page has a
\* last-access index, the frame list is strictly ascending in it from front
\* to back, the page just referenced is the last element, and the page the
\* minimum search would choose is the front element.
C18_LruSortedByRecency ==
    (algorithm = "LRU" /\ Running /\ frames >= 1) =>
        LET mem == heap[physical_memory] IN
        /\ \A k \in 1..Len(mem) : mem[k] \in DOMAIN page_indices
        /\ \A j, k \in 1..Len(mem) :
               j < k => page_indices[mem[j]] < page_indices[mem[k]]
        /\ i >= 1 => mem # <<>> /\ mem[Len(mem)] = pages[i]
        /\ mem # <<>> => MinByKey(mem, page_indices) = mem[1]

\* the frame list is full and is not in order of admission: a hit has moved
\* a page behind a page admitted later
C18_Witness ==
    /\ algorithm = "LRU"
    /\ pc = "loop"
    /\ frames >= 2
    /\ Len(heap[physical_memory]) = frames
    /\ page_faults > frames
    /\ \E j, k \in 1..Len(heap[physical_memory]) :
          /\ j < k
          /\ AdmittedAt(Snapshots, i, heap[physical_memory][j])
                 > AdmittedAt(Snapshots, i, heap[physical_memory][k])

\* C19: with frames >= 1, under every policy snapshot k contains the k-th
\* referenced page, the live frame list equals the last snapshot, and for a
\* non-empty reference string the returned frame list equals the last
\* snapshot and contains the last referenced page.
C19_ReferencedPageResident ==
    frames >= 1 =>
        /\ Running =>
              /\ \A k \in 1..Len(movements) : Contains(Snapshots[k], pages[k])
              /\ movements # <<>> =>
                     heap[physical_memory] = Snapshots[Len(movements)]
        /\ \A r \in Reports :
              /\ \A k \in 1..Len(r.movements) : Contains(r.movements[k], pages[k])
              /\ pages # <<>> =>
                     /\ r.physical_memory = r.movements[Len(r.movements)]
                     /\ Contains(r.physical_memory, pages[Len(pages)])

C19_Witness ==
    /\ frames >= 1
    /\ Len(pages) >= 3
    /\ AllReturned
    /\ \A a \in Algorithms :
          /\ returned[a][1].page_faults > frames
          /\ Contains(returned[a][1].physical_memory, pages[Len(pages)])
          /\ ~Contains(returned[a][1].physical_memory, pages[1])

\* C20: with frames >= 1, under every policy each step keeps or grows the
\* frame list; a hit keeps the resident set; a miss adds the referenced page
\* and removes exactly one page when the list holds `frames` pages and none
\* otherwise; a page leaves only on a miss at a full list; a full list stays
\* full.
C20_EvictOnlyWhenFull ==
    [][(pc = "loop" /\ frames >= 1 /\ i' = i + 1) =>
          LET mem  == heap[physical_memory]
              new  == heap'[physical_memory']
              page == pages[i + 1]
              gone == Range(mem) \ Range(new)
          IN  /\ Len(new) >= Len(mem)
              /\ Len(mem) = frames => Len(new) = frames
              /\ Contains(mem, page) => Range(new) = Range(mem)
              /\ ~Contains(mem, page) =>
                     /\ Range(new) \ Range(mem) = {page}
                     /\ Len(mem) = frames => Cardinality(gone) = 1
                     /\ Len(mem) < frames => gone = {}
              /\ gone # {} => Len(mem) = frames /\ ~Contains(mem, page)]_vars

C20_Witness ==
    /\ algorithm = "Optimal"
    /\ pc = "loop"
    /\ frames >= 2
    /\ Len(heap[physical_memory]) = frames
    /\ page_faults > frames
    /\ page_faults < i
    /\ Range(heap[physical_memory]) # Range(Snapshots[frames])
====
